---- MODULE Spec2Model ----
(***************************************************************************)
(* The oscillator model of lukevastus/Oscillation: class Shm of src/Shm.py *)
(* and its older twin, class shm of src/Main.py.  One object is built by   *)
(* the constructor and then driven by any sequence of editshm, compshm /   *)
(* computeshm, compenergy and plotenergy calls.                            *)
(*                                                                         *)
(* Numbers.  A Python/numpy float is modelled by a pair <<n, d>>: the      *)
(* exact rational n/d in lowest terms when d > 0, and the IEEE specials    *)
(* that numpy's array arithmetic produces instead of raising: <<1, 0>> is  *)
(* inf, <<-1, 0>> is -inf and <<0, 0>> is nan.  Rounding and the sign of   *)
(* a zero are not modelled.                                                *)
(***************************************************************************)
EXTENDS Integers, Sequences, FiniteSets, TLC

VARIABLES cls,         \* "Shm" (src/Shm.py) or "shm" (src/Main.py)
          k, mass, steps, time, b, F0, drive_freq,
          step_size,   \* Unset until compshm or editshm("step_size") sets it
          x, v, a, t,  \* the trajectory arrays; element i of the code is [i + 1]
          ke, pe, totale,      \* Unset until compenergy
          amp, maxv, maxa,     \* Unset until computeshm of Main.py
          noenergy,    \* the local noenergy of the plotenergy call just made
          err,         \* the exception the last call raised, or "none"
          last,        \* the last call: [op, parameter, value]
          edits        \* number of editshm calls so far

vars == <<cls, k, mass, steps, time, b, F0, drive_freq, step_size, x, v, a, t,
          ke, pe, totale, amp, maxv, maxa, noenergy, err, last, edits>>

params == <<k, mass, steps, time, b, F0, drive_freq, step_size>>
arrays == <<x, v, a, t>>
energy == <<ke, pe, totale>>
stats == <<amp, maxv, maxa>>

-----------------------------------------------------------------------------
(* Bounds of the model. *)

MaxEdits == 1

-----------------------------------------------------------------------------
(* Number arithmetic. *)

Abs(n) == IF n < 0 THEN -n ELSE n

Sgn(n) == IF n < 0 THEN -1 ELSE IF n = 0 THEN 0 ELSE 1

RECURSIVE GCD(_, _)
GCD(m, n) == IF n = 0 THEN m ELSE GCD(n, m % n)

Norm(n, d) ==
    IF d = 0 THEN <<Sgn(n), 0>>
    ELSE LET g == GCD(Abs(n), Abs(d))
         IN  <<(Sgn(d) * n) \div g, Abs(d) \div g>>

Num(n) == <<n, 1>>
NaN == <<0, 0>>
Zero == <<0, 1>>
One == <<1, 1>>
Half == <<1, 2>>
Unset == <<>>

IsInteger(q) == q[2] = 1

Neg(q) == <<-q[1], q[2]>>

Add(p, q) ==
    IF p[2] = 0 /\ q[2] = 0
    THEN (IF p = q THEN p ELSE NaN)
    ELSE IF p[2] = 0 THEN p
    ELSE IF q[2] = 0 THEN q
    ELSE LET g == GCD(p[2], q[2])
         IN  Norm(p[1] * (q[2] \div g) + q[1] * (p[2] \div g),
                  (p[2] \div g) * q[2])

Sub(p, q) == Add(p, Neg(q))

Mul(p, q) ==
    IF p[2] = 0 \/ q[2] = 0 THEN Norm(p[1] * q[1], 0)
    ELSE LET g1 == GCD(Abs(p[1]), q[2])
             g2 == GCD(Abs(q[1]), p[2])
         IN  Norm((p[1] \div g1) * (q[1] \div g2),
                  (p[2] \div g2) * (q[2] \div g1))

(* numpy's true division: x / 0 is inf or nan (a RuntimeWarning), no exception *)
Div(p, q) == Mul(p, Norm(q[2], q[1]))

Lt(p, q) ==
    /\ p # NaN
    /\ q # NaN
    /\ IF p[2] = 0 /\ q[2] = 0 THEN p[1] < q[1]
       ELSE LET g == GCD(p[2], q[2])
            IN  p[1] * (q[2] \div g) < q[1] * (p[2] \div g)

Le(p, q) == p # NaN /\ q # NaN /\ (p = q \/ Lt(p, q))

(* Python's int(value) of a finite float: truncation toward zero *)
Trunc(q) == Num(Sgn(q[1]) * (Abs(q[1]) \div q[2]))

(* math.cos.  Its values are irrational except at 0, so the model uses the
   rational stand-in max(-1, 1 - q^2 / 2): exact at 0, even, within [-1, 1]. *)
Cos(q) ==
    LET c == Sub(One, Mul(Half, Mul(q, q)))
    IN  IF Lt(c, Num(-1)) THEN Num(-1) ELSE c

-----------------------------------------------------------------------------
(* Inputs the callers pass. *)

Names == {"k", "mass", "steps", "time", "b", "F0", "drive_freq",
          "init_pos", "init_v", "step_size", "other"}

(* The values tried for each name: negative, zero and positive ones, a
   fraction below 1 for steps, a step count beyond the allocated arrays.  The
   positive times and step sizes are whole so that four ticks of exact
   arithmetic stay within the integers of the model checker. *)
Values(parameter) ==
    CASE parameter = "time" -> {Num(-4), Zero, Num(4), Num(8)}
      [] parameter = "steps" -> {Num(-1), Zero, Half, One, Num(2)}
      [] parameter = "step_size" -> {Num(-1), Zero, One, Num(2)}
      [] parameter \in {"k", "mass"} -> {Num(-1), Zero, Num(2)}
      [] OTHER -> {Num(-1), Zero, One}

Classes == {"Shm", "shm"}

-----------------------------------------------------------------------------
(* Construction: Shm.__init__ and shm.__init__. *)

Zeros(n) == [i \in 1..n |-> Zero]

(* NoForce drops the F0 == 0.0 test (as Main.py's constructor does) *)
NoForce(c, f0, df) == df

InitDriveFreq(c, f0, df) ==
    IF c = "Shm" /\ f0 = Zero THEN Zero ELSE df

Construct(c, kk, m, ip, iv, st, tm, bb, f0, df) ==
    /\ cls = c
    /\ k = kk
    /\ mass = m
    /\ steps = Num(st)
    /\ time = tm
    /\ b = bb
    /\ F0 = f0
    /\ drive_freq = InitDriveFreq(c, f0, df)
    /\ x = [Zeros(st + 1) EXCEPT ![1] = ip]
    /\ v = [Zeros(st + 1) EXCEPT ![1] = iv]
    /\ a = Zeros(st + 1)
    /\ t = Zeros(st + 1)
    /\ step_size = Unset
    /\ ke = Unset /\ pe = Unset /\ totale = Unset
    /\ amp = Unset /\ maxv = Unset /\ maxa = Unset
    /\ noenergy = Unset
    /\ err = "none"
    /\ last = [op |-> "__init__", parameter |-> "drive_freq", value |-> df]
    /\ edits = 0

(* The constructor calls tried, as <<steps, b, F0>>: k = mass = 1,
   init_pos = 1, init_v = 0, drive_freq = 1, and time = steps so that the step
   size is 1.  <<4, 0, 0>> is Scenario A of the specification. *)
Built == {<<4, Zero, Zero>>, <<4, One, Zero>>, <<2, One, Zero>>, <<2, Zero, One>>}

Init ==
    \E c \in Classes, g \in Built :
        Construct(c, One, One, One, Zero, g[1], Num(g[1]), g[2], g[3], One)

-----------------------------------------------------------------------------
(* The Euler-Cromer loop, shared verbatim by Shm.compshm and shm.computeshm. *)

Traj == [x |-> x, v |-> v, a |-> a, t |-> t]

(* PlainEuler uses the old position x[i - 1] in the velocity update *)
PlainEuler(i, h, p, tr) ==
    LET xi == Add(tr.x[i], Mul(tr.v[i], h))
        force == Sub(Sub(Mul(p.F0, Cos(Mul(Mul(p.drive_freq, Num(i)), h))),
                         Mul(p.b, tr.v[i])),
                     Mul(p.k, tr.x[i]))
        vi == Add(tr.v[i], Div(Mul(force, h), p.mass))
        ai == Div(Sub(vi, tr.v[i]), h)
        ti == Add(tr.t[i], h)
    IN  [x |-> [tr.x EXCEPT ![i + 1] = xi],
         v |-> [tr.v EXCEPT ![i + 1] = vi],
         a |-> [tr.a EXCEPT ![i + 1] = ai],
         t |-> [tr.t EXCEPT ![i + 1] = ti]]

(* One pass of the loop body for tick i; the code's index j is [j + 1] here. *)
Tick(i, h, p, tr) ==
    LET xi == Add(tr.x[i], Mul(tr.v[i], h))
        force == Sub(Sub(Mul(p.F0, Cos(Mul(Mul(p.drive_freq, Num(i)), h))),
                         Mul(p.b, tr.v[i])),
                     Mul(p.k, xi))
        vi == Add(tr.v[i], Div(Mul(force, h), p.mass))
        ai == Div(Sub(vi, tr.v[i]), h)
        ti == Add(tr.t[i], h)
    IN  [x |-> [tr.x EXCEPT ![i + 1] = xi],
         v |-> [tr.v EXCEPT ![i + 1] = vi],
         a |-> [tr.a EXCEPT ![i + 1] = ai],
         t |-> [tr.t EXCEPT ![i + 1] = ti]]

RECURSIVE Loop(_, _, _, _, _)
Loop(i, n, h, p, tr) ==
    IF i > n THEN tr ELSE Loop(i + 1, n, h, p, Tick(i, h, p, tr))

(* Drifting starts the clock from the last stored time instead of t[0] *)
Drifting(p, tr) ==
    IF p.steps = Zero
    THEN [err |-> "ZeroDivisionError", h |-> Unset, tr |-> tr]
    ELSE LET h == Div(p.time, p.steps)
             size == Len(tr.x)
             shifted == [tr EXCEPT !.t[1] = tr.t[size]]
         IN  IF ~IsInteger(p.steps)
             THEN [err |-> "TypeError", h |-> h, tr |-> tr]
             ELSE IF p.steps[1] > size - 1
             THEN [err |-> "IndexError", h |-> h,
                   tr |-> Loop(1, size - 1, h, p, shifted)]
             ELSE [err |-> "none", h |-> h,
                   tr |-> Loop(1, p.steps[1], h, p, shifted)]

(* The body of compshm / computeshm up to the end of the loop: the exception
   raised (time / steps with steps = 0; range() of a non-integer; x[i] past the
   end of the arrays, which keep the ticks written before it), the step size
   assigned and the arrays left behind. *)
Integrate(p, tr) ==
    IF p.steps = Zero
    THEN [err |-> "ZeroDivisionError", h |-> Unset, tr |-> tr]
    ELSE LET h == Div(p.time, p.steps)
             size == Len(tr.x)
         IN  IF ~IsInteger(p.steps)
             THEN [err |-> "TypeError", h |-> h, tr |-> tr]
             ELSE IF p.steps[1] > size - 1
             THEN [err |-> "IndexError", h |-> h,
                   tr |-> Loop(1, size - 1, h, p, tr)]
             ELSE [err |-> "none", h |-> h,
                   tr |-> Loop(1, p.steps[1], h, p, tr)]

Params == [k |-> k, mass |-> mass, steps |-> steps, time |-> time, b |-> b,
           F0 |-> F0, drive_freq |-> drive_freq, step_size |-> step_size]

NoCall(op) == [op |-> op, parameter |-> "", value |-> Zero]

(* Shm.compshm *)
compshm ==
    /\ cls = "Shm"
    /\ \E r \in {Integrate(Params, Traj)} :
           /\ err' = r.err
           /\ step_size' = IF r.h = Unset THEN step_size ELSE r.h
           /\ x' = r.tr.x /\ v' = r.tr.v /\ a' = r.tr.a /\ t' = r.tr.t
    /\ last' = NoCall("compshm")
    /\ noenergy' = Unset
    /\ UNCHANGED <<cls, k, mass, steps, time, b, F0, drive_freq, energy, stats,
                   edits>>

-----------------------------------------------------------------------------
(* Shm.editshm of src/Shm.py. *)

(* SignCheckOnly forgets the "== 0" tests of k, mass, steps and time *)
SignCheckOnly(parameter, value) ==
    Lt(value, Zero) /\ parameter \notin {"F0", "init_v", "init_pos"}

(* The two places editshm raises ValueError, both ahead of every assignment *)
EditRaises(parameter, value) ==
    \/ Lt(value, Zero) /\ parameter \notin {"F0", "init_v", "init_pos"}
    \/ parameter \in {"k", "mass", "steps", "time"} /\ value = Zero

(* FallThrough ends the elif chain with a bare else *)
FallThrough(parameter, value, p) ==
    CASE parameter = "k" -> [p EXCEPT !.k = value]
      [] parameter = "mass" -> [p EXCEPT !.mass = value]
      [] parameter = "steps" -> [p EXCEPT !.steps = Trunc(value)]
      [] parameter = "time" -> [p EXCEPT !.time = value]
      [] parameter = "b" -> [p EXCEPT !.b = value]
      [] parameter = "F0" -> [p EXCEPT !.F0 = value]
      [] parameter = "drive_freq" -> [p EXCEPT !.drive_freq = value]
      [] parameter \in {"init_pos", "init_v"} -> p
      [] OTHER -> [p EXCEPT !.step_size = value, !.time = Mul(value, p.steps)]

(* ClampDamping stores max(value, 0) style defaults for b and F0 *)
ClampDamping(parameter, value, p) ==
    CASE parameter = "k" -> [p EXCEPT !.k = value]
      [] parameter = "mass" -> [p EXCEPT !.mass = value]
      [] parameter = "steps" -> [p EXCEPT !.steps = Trunc(value)]
      [] parameter = "time" -> [p EXCEPT !.time = value]
      [] parameter = "b" -> [p EXCEPT !.b = Zero]
      [] parameter = "F0" -> [p EXCEPT !.F0 = Zero]
      [] parameter = "drive_freq" -> [p EXCEPT !.drive_freq = value]
      [] parameter = "step_size" ->
            [p EXCEPT !.step_size = value, !.time = Mul(value, p.steps)]
      [] OTHER -> p

(* The scalar attributes after the if / elif chain of Shm.editshm *)
Edited(parameter, value, p) ==
    CASE parameter = "k" -> [p EXCEPT !.k = value]
      [] parameter = "mass" -> [p EXCEPT !.mass = value]
      [] parameter = "steps" -> [p EXCEPT !.steps = Trunc(value)]
      [] parameter = "time" -> [p EXCEPT !.time = value]
      [] parameter = "b" -> [p EXCEPT !.b = value]
      [] parameter = "F0" -> [p EXCEPT !.F0 = value]
      [] parameter = "drive_freq" -> [p EXCEPT !.drive_freq = value]
      [] parameter = "step_size" ->
            [p EXCEPT !.step_size = value, !.time = Mul(value, p.steps)]
      [] OTHER -> p

(* Rezeroing reallocates x and v around the new initial condition *)
Rezeroing(parameter, value, tr) ==
    CASE parameter = "init_pos" ->
            [tr EXCEPT !.x = [Zeros(Len(tr.x)) EXCEPT ![1] = value]]
      [] parameter = "init_v" ->
            [tr EXCEPT !.v = [Zeros(Len(tr.v)) EXCEPT ![1] = value]]
      [] OTHER -> tr

(* The arrays after the chain: only the x[0] and v[0] branches write them *)
EditedTraj(parameter, value, tr) ==
    CASE parameter = "init_pos" -> [tr EXCEPT !.x[1] = value]
      [] parameter = "init_v" -> [tr EXCEPT !.v[1] = value]
      [] OTHER -> tr

SetParams(p) ==
    /\ k' = p.k /\ mass' = p.mass /\ steps' = p.steps /\ time' = p.time
    /\ b' = p.b /\ F0' = p.F0 /\ drive_freq' = p.drive_freq

SetTraj(tr) ==
    x' = tr.x /\ v' = tr.v /\ a' = tr.a /\ t' = tr.t

editshm(parameter, value) ==
    /\ cls = "Shm"
    /\ edits < MaxEdits
    /\ edits' = edits + 1
    /\ last' = [op |-> "editshm", parameter |-> parameter, value |-> value]
    /\ IF EditRaises(parameter, value)
       THEN /\ err' = "ValueError"
            /\ UNCHANGED <<params, arrays>>
       ELSE /\ err' = "none"
            /\ \E p \in {Edited(parameter, value, Params)} :
                   SetParams(p) /\ step_size' = p.step_size
            /\ SetTraj(EditedTraj(parameter, value, Traj))
    /\ noenergy' = Unset
    /\ UNCHANGED <<cls, energy, stats>>

-----------------------------------------------------------------------------
(* Energies and the decay cutoff. *)

Hundredth == <<1, 100>>

(* compenergy: ke, pe and totale over the whole arrays *)
Energy(p, tr) ==
    LET kin == [i \in 1..Len(tr.v) |->
                    Mul(Mul(Half, p.mass), Mul(tr.v[i], tr.v[i]))]
        pot == [i \in 1..Len(tr.x) |->
                    Mul(Mul(Half, p.k), Mul(tr.x[i], tr.x[i]))]
    IN  [ke |-> kin, pe |-> pot,
         totale |-> [i \in 1..Len(tr.x) |-> Add(kin[i], pot[i])]]

compenergy ==
    /\ cls = "Shm"
    /\ \E e \in {Energy(Params, Traj)} :
           ke' = e.ke /\ pe' = e.pe /\ totale' = e.totale
    /\ err' = "none"
    /\ last' = NoCall("compenergy")
    /\ noenergy' = Unset
    /\ UNCHANGED <<cls, params, arrays, stats, edits>>

(* The loop of plotenergy from index i on: "for i in range(n)", first hit wins *)
RECURSIVE Scan(_, _, _, _, _)
Scan(i, n, tot, ts, tm) ==
    IF i >= n THEN [err |-> "none", value |-> tm]
    ELSE IF i + 1 > Len(tot) THEN [err |-> "IndexError", value |-> tm]
    ELSE IF Le(tot[i + 1], Mul(tot[1], Hundredth))
         THEN [err |-> "none", value |-> ts[i + 1]]
         ELSE Scan(i + 1, n, tot, ts, tm)

(* NoBreak lacks the break: the last hit wins *)
RECURSIVE LastHit(_, _, _, _, _)
LastHit(i, n, tot, ts, tm) ==
    IF i >= n \/ i + 1 > Len(tot) THEN tm
    ELSE LET rest == LastHit(i + 1, n, tot, ts, tm)
         IN  IF rest = tm /\ Le(tot[i + 1], Mul(tot[1], Hundredth))
             THEN ts[i + 1] ELSE rest

NoBreak(st, tot, ts, tm) ==
    IF ~IsInteger(st) THEN [err |-> "TypeError", value |-> tm]
    ELSE [err |-> IF st[1] > Len(tot) THEN "IndexError" ELSE "none",
          value |-> LastHit(0, st[1], tot, ts, tm)]

(* noenergy as plotenergy computes it from steps, totale, t and time *)
Cutoff(st, tot, ts, tm) ==
    IF ~IsInteger(st) THEN [err |-> "TypeError", value |-> tm]
    ELSE Scan(0, st[1], tot, ts, tm)

plotenergy ==
    /\ cls = "Shm"
    /\ IF totale = Unset
       THEN err' = "AttributeError" /\ noenergy' = Unset
       ELSE \E c \in {Cutoff(steps, totale, t, time)} :
                /\ err' = c.err
                /\ noenergy' = IF c.err = "none" THEN c.value ELSE Unset
    /\ last' = NoCall("plotenergy")
    /\ UNCHANGED <<cls, params, arrays, energy, stats, edits>>

-----------------------------------------------------------------------------
(* class shm of src/Main.py. *)

(* Python's max() over an array: the first element, replaced by each later
   element that compares greater (a nan never does) *)
RECURSIVE MaxFrom(_, _, _)
MaxFrom(i, s, m) ==
    IF i > Len(s) THEN m
    ELSE MaxFrom(i + 1, s, IF Lt(m, s[i]) THEN s[i] ELSE m)

(* SkipFirst leaves index 0 out of the maximum *)
SkipFirst(s) == IF Len(s) = 1 THEN s[1] ELSE MaxFrom(3, s, s[2])

Maximum(s) == MaxFrom(2, s, s[1])

(* The assignments of shm.editshm: no validation, steps stored as given *)
MainEdited(parameter, value, p) ==
    CASE parameter = "k" -> [p EXCEPT !.k = value]
      [] parameter = "mass" -> [p EXCEPT !.mass = value]
      [] parameter = "steps" -> [p EXCEPT !.steps = value]
      [] parameter = "time" -> [p EXCEPT !.time = value]
      [] parameter = "b" -> [p EXCEPT !.b = value]
      [] parameter = "F0" -> [p EXCEPT !.F0 = value]
      [] parameter = "drive_freq" -> [p EXCEPT !.drive_freq = value]
      [] parameter = "step_size" ->
            [p EXCEPT !.step_size = value, !.time = Mul(value, p.steps)]
      [] OTHER -> p

(* The effect of shm.computeshm on a model with scalars p and arrays tr *)
Computed(p, tr) ==
    \E r \in {Integrate(p, tr)} :
        /\ err' = r.err
        /\ step_size' = IF r.h = Unset THEN p.step_size ELSE r.h
        /\ SetTraj(r.tr)
        /\ IF r.err = "none"
           THEN /\ amp' = Maximum(r.tr.x)
                /\ maxv' = Maximum(r.tr.v)
                /\ maxa' = Maximum(r.tr.a)
           ELSE UNCHANGED stats

computeshm ==
    /\ cls = "shm"
    /\ Computed(Params, Traj)
    /\ last' = NoCall("computeshm")
    /\ noenergy' = Unset
    /\ UNCHANGED <<cls, k, mass, steps, time, b, F0, drive_freq, energy, edits>>

(* shm.editshm: the assignment, then self.computeshm() *)
Main_editshm(parameter, value) ==
    /\ cls = "shm"
    /\ edits < MaxEdits
    /\ edits' = edits + 1
    /\ last' = [op |-> "editshm", parameter |-> parameter, value |-> value]
    /\ \E p \in {MainEdited(parameter, value, Params)} :
           /\ SetParams(p)
           /\ Computed(p, EditedTraj(parameter, value, Traj))
    /\ noenergy' = Unset
    /\ UNCHANGED <<cls, energy>>

Main_compenergy ==
    /\ cls = "shm"
    /\ \E e \in {Energy(Params, Traj)} :
           ke' = e.ke /\ pe' = e.pe /\ totale' = e.totale
    /\ err' = "none"
    /\ last' = NoCall("compenergy")
    /\ noenergy' = Unset
    /\ UNCHANGED <<cls, params, arrays, stats, edits>>

(* shm.plotenergy calls self.compenergy() itself before the scan *)
Main_plotenergy ==
    /\ cls = "shm"
    /\ \E e \in {Energy(Params, Traj)} :
       \E c \in {Cutoff(steps, e.totale, t, time)} :
           /\ ke' = e.ke /\ pe' = e.pe /\ totale' = e.totale
           /\ err' = c.err
           /\ noenergy' = IF c.err = "none" THEN c.value ELSE Unset
    /\ last' = NoCall("plotenergy")
    /\ UNCHANGED <<cls, params, arrays, stats, edits>>

-----------------------------------------------------------------------------

Next ==
    \/ \E parameter \in Names : \E value \in Values(parameter) : editshm(parameter, value)
    \/ compshm
    \/ compenergy
    \/ plotenergy
    \/ \E parameter \in Names : \E value \in Values(parameter) : Main_editshm(parameter, value)
    \/ computeshm
    \/ Main_compenergy
    \/ Main_plotenergy

Spec == Init /\ [][Next]_vars

-----------------------------------------------------------------------------
(* Vocabulary of the properties. *)

(* The step just taken is an editshm call *)
EditStep == edits' = edits + 1

IsShm == cls = "Shm"

(* The arrays hold ticks 1..steps of the recurrence for the current scalars *)
Recurrence ==
    LET h == Div(time, steps)
    IN  /\ IsInteger(steps)
        /\ steps[1] + 1 <= Len(x)
        /\ \A i \in 1..steps[1] :
            /\ x[i + 1] = Add(x[i], Mul(v[i], h))
            /\ v[i + 1] =
                 Add(v[i],
                     Div(Mul(Sub(Sub(Mul(F0, Cos(Mul(Mul(drive_freq, Num(i)), h))),
                                     Mul(b, v[i])),
                                 Mul(k, x[i + 1])),
                             h),
                         mass))
            /\ a[i + 1] = Div(Sub(v[i + 1], v[i]), h)
            /\ t[i + 1] = Add(t[i], h)

ScenarioA ==
    /\ k = One /\ mass = One /\ b = Zero /\ F0 = Zero
    /\ steps = Num(4) /\ time = Num(4)
    /\ x[1] = One /\ v[1] = Zero

(* C1: in every reachable state of a Shm object the four arrays have length
   steps + 1. *)
C1_ArraysMatchStepCount ==
    IsShm =>
        /\ Num(Len(x)) = Add(steps, One)
        /\ Num(Len(v)) = Add(steps, One)
        /\ Num(Len(a)) = Add(steps, One)
        /\ Num(Len(t)) = Add(steps, One)

(* C2: Shm.editshm of k, mass, steps or time with a value <= 0 raises
   ValueError, and an editshm call that raises leaves every scalar and every
   array element as it was. *)
C2_RejectedEditIsAtomic ==
    [][(IsShm /\ EditStep) =>
          /\ (last'.parameter \in {"k", "mass", "steps", "time"}
                /\ Le(last'.value, Zero)) => err' = "ValueError"
          /\ err' = "ValueError" => UNCHANGED <<params, arrays, energy, stats>>]_vars

C2_Witness ==
    /\ IsShm /\ last.op = "editshm" /\ err = "ValueError"
    /\ last.parameter = "k" /\ last.value = Zero /\ k = One

(* C3 as stated: Shm.editshm of b, F0 or drive_freq never raises, whatever the
   value, and stores it. *)
C3_AnyValueAccepted ==
    [][(IsShm /\ EditStep /\ last'.parameter \in {"b", "F0", "drive_freq"}) =>
          /\ err' = "none"
          /\ last'.parameter = "b" => b' = last'.value
          /\ last'.parameter = "F0" => F0' = last'.value
          /\ last'.parameter = "drive_freq" => drive_freq' = last'.value]_vars

(* C3 amended: F0 takes any value; b and drive_freq take any value >= 0; a
   negative b or drive_freq raises ValueError and is not stored. *)
C3_SignRule ==
    [][(IsShm /\ EditStep /\ last'.parameter \in {"b", "F0", "drive_freq"}) =>
          IF last'.parameter = "F0" \/ ~Lt(last'.value, Zero)
          THEN /\ err' = "none"
               /\ last'.parameter = "b" => b' = last'.value
               /\ last'.parameter = "F0" => F0' = last'.value
               /\ last'.parameter = "drive_freq" => drive_freq' = last'.value
          ELSE /\ err' = "ValueError"
               /\ UNCHANGED <<b, F0, drive_freq>>]_vars

C3_Witness ==
    /\ IsShm /\ last.op = "editshm" /\ err = "none"
    /\ last.parameter = "F0" /\ last.value = Num(-1) /\ F0 = Num(-1)

(* C4 as stated: Shm.editshm with an unrecognized name raises nothing and
   changes nothing, whatever the value. *)
C4_UnknownNameIgnored ==
    [][(IsShm /\ EditStep /\ last'.parameter = "other") =>
          err' = "none" /\ UNCHANGED <<params, arrays>>]_vars

(* C4 amended: with an unrecognized name a value >= 0 is a silent no-op and a
   negative value raises ValueError; either way nothing changes. *)
C4_UnknownNameSignChecked ==
    [][(IsShm /\ EditStep /\ last'.parameter = "other") =>
          /\ err' = (IF Lt(last'.value, Zero) THEN "ValueError" ELSE "none")
          /\ UNCHANGED <<params, arrays, energy, stats>>]_vars

C4_Witness ==
    /\ IsShm /\ last.op = "editshm" /\ err = "none"
    /\ last.parameter = "other" /\ last.value = One

(* C5: a completed Shm.compshm leaves ticks 1..steps satisfying the
   Euler-Cromer recurrence, the velocity of tick i computed from the position
   of tick i, and for Scenario A yields the reference trajectory. *)
C5_EulerCromer ==
    (IsShm /\ last.op = "compshm" /\ err = "none") =>
        /\ Recurrence
        /\ step_size = Div(time, steps)
        /\ ScenarioA =>
            /\ x = <<One, One, Zero, Num(-1), Num(-1)>>
            /\ v = <<Zero, Num(-1), Num(-1), Zero, One>>
            /\ a = <<Zero, Num(-1), Zero, One, One>>
            /\ t = <<Zero, One, Num(2), Num(3), Num(4)>>

C5_Witness ==
    /\ IsShm /\ last.op = "compshm" /\ err = "none" /\ ScenarioA
    /\ x[2] = One /\ v[2] = Num(-1)

(* C6: right after compshm (computeshm), running it again would leave the
   four arrays and the step size as they are. *)
C6_Idempotent ==
    (last.op \in {"compshm", "computeshm"}) =>
        \A again \in {Integrate(Params, Traj)} :
            /\ again.tr = Traj
            /\ again.err = err
            /\ err = "none" => again.h = step_size

C6_Witness ==
    /\ IsShm /\ last.op = "compshm" /\ err = "none"
    /\ F0 = One /\ drive_freq = One /\ x[Len(x)] # x[1]

(* C7 as stated: in every reachable state of a Shm object, F0 = 0 implies
   drive_freq = 0. *)
C7_ZeroForceZeroFrequency ==
    IsShm => (F0 = Zero => drive_freq = Zero)

(* C7 amended: the constructor stores drive_freq = 0 when F0 = 0, and that
   holds until the first editshm call. *)
C7_ForcedAtConstruction ==
    (IsShm /\ edits = 0) => (F0 = Zero => drive_freq = Zero)

C7_Witness ==
    /\ IsShm /\ last.op = "__init__" /\ last.value = One
    /\ F0 = Zero /\ drive_freq = Zero

(* The state plotenergy leaves when run on a trajectory that compshm filled
   for the current scalars and on energies that compenergy derived from it *)
CutoffTaken ==
    /\ IsShm /\ last.op = "plotenergy" /\ err = "none"
    /\ Recurrence /\ Len(x) = steps[1] + 1 /\ t[1] = Zero
    /\ totale = Energy(Params, Traj).totale

Decayed(i) == Le(totale[i + 1], Mul(Hundredth, totale[1]))

(* C8 as stated: the cutoff is time[i] for the smallest i in 0..steps with
   totale[i] <= 0.01 * totale[0], strictly less than time whenever such an i
   exists, and time when none exists. *)
C8_CutoffThroughLastTick ==
    CutoffTaken =>
        IF \E i \in 0..steps[1] : Decayed(i)
        THEN /\ \E i \in 0..steps[1] :
                  /\ Decayed(i)
                  /\ \A j \in 0..(i - 1) : ~Decayed(j)
                  /\ noenergy = t[i + 1]
             /\ Lt(noenergy, time)
        ELSE noenergy = time

(* C8 amended: only the indices 0..steps - 1 are examined.  The cutoff is
   time[i] for the smallest such i with totale[i] <= 0.01 * totale[0], which
   is below time when time > 0; it is time when no such i exists, also when
   the last tick alone has decayed. *)
C8_CutoffBeforeLastTick ==
    CutoffTaken =>
        IF \E i \in 0..(steps[1] - 1) : Decayed(i)
        THEN /\ \E i \in 0..(steps[1] - 1) :
                  /\ Decayed(i)
                  /\ \A j \in 0..(i - 1) : ~Decayed(j)
                  /\ noenergy = t[i + 1]
             /\ Lt(Zero, time) => Lt(noenergy, time)
        ELSE noenergy = time

C8_Witness ==
    /\ CutoffTaken /\ b = One /\ steps = Num(4)
    /\ ~Decayed(0) /\ ~Decayed(1) /\ Decayed(2) /\ Decayed(3)
    /\ noenergy = t[3] /\ Lt(noenergy, time)

(* m is the maximum of the array s as Python's max() finds it *)
IsMax(m, s) ==
    /\ \E i \in 1..Len(s) : s[i] = m
    /\ \A i \in 1..Len(s) : s[i] = NaN \/ Le(s[i], m)

Completed == last.op \in {"compshm", "computeshm"} /\ err = "none"

(* C9 as stated: after every completed compshm / computeshm, amp, maxv and
   maxa are the maxima of x, v and a over the indices 0..steps. *)
C9_StatisticsAfterIntegrate ==
    Completed =>
        /\ amp # Unset /\ maxv # Unset /\ maxa # Unset
        /\ IsMax(amp, SubSeq(x, 1, steps[1] + 1))
        /\ IsMax(maxv, SubSeq(v, 1, steps[1] + 1))
        /\ IsMax(maxa, SubSeq(a, 1, steps[1] + 1))

(* C9 amended: only class shm of Main.py keeps the statistics.  After every
   completed computeshm, also the one that ends shm.editshm, amp, maxv and
   maxa are the maxima over the whole stored arrays x, v and a, index 0
   included; a Shm object of Shm.py never has them. *)
C9_StatisticsOfMain ==
    /\ (cls = "shm" /\ last.op \in {"computeshm", "editshm"} /\ err = "none") =>
          IsMax(amp, x) /\ IsMax(maxv, v) /\ IsMax(maxa, a)
    /\ IsShm => (amp = Unset /\ maxv = Unset /\ maxa = Unset)

C9_Witness ==
    /\ cls = "shm" /\ last.op = "computeshm" /\ err = "none"
    /\ amp = x[1] /\ Lt(x[2], x[1]) /\ maxv # v[1] /\ maxa # a[1]

(* What an edit may do to the arrays: nothing beyond index 0 of x and of v *)
OnlyInitialSlots ==
    /\ a' = a /\ t' = t
    /\ Len(x') = Len(x) /\ Len(v') = Len(v)
    /\ \A i \in 2..Len(x) : x'[i] = x[i] /\ v'[i] = v[i]
    /\ x'[1] = (IF last'.parameter = "init_pos" THEN last'.value ELSE x[1])
    /\ v'[1] = (IF last'.parameter = "init_v" THEN last'.value ELSE v[1])

(* C10 as stated: a successful editshm, of either class, leaves every array
   element of index >= 1 as it was and writes index 0 only for init_pos and
   init_v. *)
C10_EditNeverRecomputes ==
    [][(EditStep /\ err' = "none") => OnlyInitialSlots]_vars

(* C10 amended: that holds of Shm.editshm of Shm.py; shm.editshm of Main.py
   ends with self.computeshm() and rewrites the trajectory. *)
C10_ShmEditNeverRecomputes ==
    [][(IsShm /\ EditStep /\ err' = "none") => OnlyInitialSlots]_vars

C10_Witness ==
    /\ IsShm /\ last.op = "editshm" /\ err = "none"
    /\ last.parameter = "init_pos" /\ x[1] = Num(-1) /\ Len(x) = 5
    /\ x[3] = Zero /\ x[4] = Num(-1) /\ t[5] = Num(4)

(* C11: a Shm object built with k > 0, mass > 0, steps >= 1 and time > 0
   keeps, through every sequence of editshm calls, k > 0, mass > 0, steps a
   whole number >= 1 and time > 0, so that compshm can divide time by steps
   and get a step size > 0. *)
C11_ParametersStayValid ==
    IsShm =>
        /\ Lt(Zero, k)
        /\ Lt(Zero, mass)
        /\ IsInteger(steps) /\ Le(One, steps)
        /\ Lt(Zero, time)

====
